---- MODULE Spec2Model ----
(***************************************************************************)
(* Model of mvsim's CollisionShapeCache::get()                             *)
(* (modules/simulator/src/CollisionShapeCache.cpp).                        *)
(*                                                                         *)
(* Several threads call get() on the process-wide cache.  One call is a    *)
(* sequence of steps: the lookup, the creation of the placeholder entry,   *)
(* the buffer-update hooks, one lock/read/unlock round per geometry        *)
(* buffer, the hull assignment and the volume check.  Coordinates are      *)
(* integers; the pose is a translation; volume() is counted in half unit   *)
(* cubes, so that "vol < 1e-8" is "vol < MinVolume" with MinVolume = 1.    *)
(***************************************************************************)
EXTENDS Integers, Sequences, FiniteSets, TLC

\* ------------------------------------------------------------------ bounds
\* Total number of get() calls started in one behaviour.
MaxCalls == 2

\* Operations called on the world and its vehicles in one behaviour.
MaxOps == 3

\* Simulation steps of one run_simulation() call.
MaxTicks == 1

\* The last instant of the real-time clock.
MaxTime == 4

\* ------------------------------------------------------------- input sets
Threads == {1, 2}

\* std::optional<std::string> modelFile: None is std::nullopt.
None == "nullopt"
Keys == {"a.dae", "b.dae"}

\* [zMin, zMax] height bands handed to get().
Bands == {<<0, 2>>, <<3, 4>>}

\* modelScale
Scales == {1, 2}

\* modelPose, a translation <<dx, dy, dz>>.
Poses == {<<1, 0, 0>>}

\* ------------------------------------------------------- visual objects
\* The shader base classes a CRenderizable can be cast to (lines 41-68):
\*   "tris":  a set of textured triangles;
\*   "mesh":  a CAssimpModel (triangles, points, wireframe, and nested
\*            textured sub-objects, one of which is a null pointer).
Objs == {"tris", "mesh"}

ObjClass(o) ==
    IF o = "tris" THEN {"RSTT"}
    ELSE {"Assimp", "RST", "RSWF", "RP"}

\* A buffer of triangles; each triangle has three vertices.
shaderTrianglesBuffer(o) ==
    IF o = "mesh" THEN << << <<0, 0, 0>>, <<1, 0, 0>>, <<0, 1, 0>> >> >>
    ELSE << >>

shaderTexturedTrianglesBuffer(o) ==
    IF o = "tris"
    THEN << << <<0, 0, 0>>, <<2, 0, 0>>, <<0, 2, 0>> >>,
            << <<0, 0, 1>>, <<2, 0, 1>>, <<2, 2, 1>> >> >>
    ELSE << >>

shaderPointsVertexPointBuffer(o) ==
    IF o = "mesh" THEN << <<1, 1, 0>> >> ELSE << >>

shaderWireframeVertexPointBuffer(o) ==
    IF o = "mesh" THEN << <<0, 0, 0>>, <<0, 0, 3>> >> ELSE << >>

\* texturedObjects() of a CAssimpModel: each entry is a null pointer or a
\* sub-object with its own textured-triangles buffer and mutex (the
\* traversal of lines 112-125 is compiled in for MRPT >= 2.6.0).
texturedObjects(o) ==
    IF o = "mesh"
    THEN << [isNull |-> TRUE, tris |-> << >>],
            [isNull |-> FALSE,
             tris |-> << << <<0, 0, 1>>, <<1, 0, 1>>, <<1, 1, 1>> >> >>] >>
    ELSE << >>

RECURSIVE TriVertices(_)
TriVertices(tris) ==
    IF tris = << >> THEN << >> ELSE Head(tris) \o TriVertices(Tail(tris))

RECURSIVE NestedBuffers(_, _)
NestedBuffers(txtrdObjs, i) ==
    IF i > Len(txtrdObjs) THEN << >>
    ELSE (IF txtrdObjs[i].isNull THEN << >>
          ELSE << [id |-> <<"tex", i>>,
                   verts |-> TriVertices(txtrdObjs[i].tris)] >>)
         \o NestedBuffers(txtrdObjs, i + 1)

\* The buffers get() traverses for object o, in the order of lines 83-126,
\* each with the vertices its loop visits.
BufList(o) ==
    (IF "RST" \in ObjClass(o)
     THEN << [id |-> <<"tri", 0>>,
              verts |-> TriVertices(shaderTrianglesBuffer(o))] >>
     ELSE << >>)
    \o (IF "RSTT" \in ObjClass(o)
        THEN << [id |-> <<"textri", 0>>,
                 verts |-> TriVertices(shaderTexturedTrianglesBuffer(o))] >>
        ELSE << >>)
    \o (IF "RP" \in ObjClass(o)
        THEN << [id |-> <<"pts", 0>>,
                 verts |-> shaderPointsVertexPointBuffer(o)] >>
        ELSE << >>)
    \o (IF "RSWF" \in ObjClass(o)
        THEN << [id |-> <<"wf", 0>>,
                 verts |-> shaderWireframeVertexPointBuffer(o)] >>
        ELSE << >>)
    \o (IF "Assimp" \in ObjClass(o)
        THEN NestedBuffers(texturedObjects(o), 1)
        ELSE << >>)

\* One mutex per geometry buffer of each object.
Mutexes ==
    UNION {{<<o, BufList(o)[i].id>> : i \in DOMAIN BufList(o)} : o \in Objs}

\* The buffer-update hooks get() invokes on object o (lines 41-68).
UpdateHooks(o) ==
    (IF "Assimp" \in ObjClass(o) THEN {"onUpdateBuffers_all"} ELSE {})
    \cup (IF "RSWF" \in ObjClass(o) THEN {"onUpdateBuffers_Wireframe"} ELSE {})
    \cup (IF "RST" \in ObjClass(o) THEN {"onUpdateBuffers_Triangles"} ELSE {})
    \cup (IF "RSTT" \in ObjClass(o)
          THEN {"onUpdateBuffers_TexturedTriangles"} ELSE {})
    \cup (IF "RP" \in ObjClass(o) THEN {"onUpdateBuffers_Points"} ELSE {})

\* ---------------------------------------------------------------- Shape2p5
\* A 2.5D shape: an ordered convex contour and the height range of the
\* points it was built from.
Shape2p5 == [contour |-> << >>, zMin |-> 0, zMax |-> 0]

Cross(o, a, b) ==
    (a[1] - o[1]) * (b[2] - o[2]) - (a[2] - o[2]) * (b[1] - o[1])

Dist2(a, b) ==
    (a[1] - b[1]) * (a[1] - b[1]) + (a[2] - b[2]) * (a[2] - b[2])

\* The lowest of the leftmost points.
HullStart(P) ==
    CHOOSE p \in P : \A q \in P :
        p[1] < q[1] \/ (p[1] = q[1] /\ p[2] <= q[2])

\* The next contour vertex after p, counter-clockwise: every other point is
\* on its left, or on the segment from p to it.
HullNext(P, p) ==
    CHOOSE q \in P \ {p} : \A r \in P \ {p} :
        \/ Cross(p, q, r) > 0
        \/ Cross(p, q, r) = 0 /\ Dist2(p, r) <= Dist2(p, q)

RECURSIVE HullWalk(_, _, _)
HullWalk(P, acc, p) ==
    LET q == HullNext(P, p)
    IN IF q = acc[1] THEN acc ELSE HullWalk(P, Append(acc, q), q)

ConvexHull2D(P) ==
    IF P = {} THEN << >>
    ELSE IF Cardinality(P) = 1 THEN << HullStart(P) >>
    ELSE HullWalk(P, << HullStart(P) >>, HullStart(P))

SeqToSet(s) == {s[i] : i \in DOMAIN s}

MinOf(S) == CHOOSE x \in S : \A y \in S : x <= y
MaxOf(S) == CHOOSE x \in S : \A y \in S : x >= y

CreateConvexHullFromPoints(allPts) ==
    LET P3 == SeqToSet(allPts)
        P2 == {<<p[1], p[2]>> : p \in P3}
        Z  == {p[3] : p \in P3}
    IN IF P3 = {} THEN Shape2p5
       ELSE [contour |-> ConvexHull2D(P2), zMin |-> MinOf(Z), zMax |-> MaxOf(Z)]

RECURSIVE ShoelaceSum(_, _)
ShoelaceSum(c, i) ==
    IF i > Len(c) THEN 0
    ELSE LET a == c[i]
             b == c[(i % Len(c)) + 1]
         IN (a[1] * b[2] - b[1] * a[2]) + ShoelaceSum(c, i + 1)

Abs(x) == IF x < 0 THEN -x ELSE x

\* Twice the signed area of the contour, in absolute value.
Area2(c) == IF Len(c) < 3 THEN 0 ELSE Abs(ShoelaceSum(c, 1))

\* Shape2p5::volume(), in half unit cubes.
volume(s) == Area2(s.contour) * Abs(s.zMax - s.zMin)

\* The threshold of line 144 (1e-8) in the unit of volume(): the measure
\* is a natural number, so it is below 1e-8 exactly when it is below 1.
MinVolume == 1

\* ------------------------------------------------------------------ state
VARIABLES
    cache,         \* the map of the singleton: asset key -> convexHull
    pc,            \* per thread: where its get() call stands
    args,          \* per thread: the arguments of its current/last call
    bufIdx,        \* per thread: index in BufList of the buffer in turn
    allPts,        \* per thread: the points that passed the height band
    numTotalPts,   \* per thread: vertices visited by lambdaUpdatePt
    numPassedPts,  \* per thread: vertices that passed the height band
    hooks,         \* per thread: buffer-update hooks invoked by the call
    numLocks,      \* per thread: buffer locks acquired by the call
    retVal,        \* per thread: the local Shape2p5 of line 36
    detached,      \* per thread: `ret` refers to a node lost by the map
    snap,          \* per thread: the keys seen when its insertion began
    mtx,           \* per buffer mutex: the thread holding it, or 0
    result,        \* per thread: what its last call handed to the caller
    numCalls       \* calls started so far

\* CollisionShapeCache::Instance()
VARIABLES
    numInstances,  \* CollisionShapeCache objects constructed so far
    inst           \* per thread: the object its last Instance() call
                   \* returned (its construction ordinal), 0 before any call

\* The world and its vehicles (VehicleBase)
VARIABLES
    wheels_info_,     \* per vehicle: its wheels, each [w, radius, y]
    fixture_wheels_,  \* per vehicle: the wheel fixtures
    bodyVel,          \* per vehicle: velocity of its body in the engine
    bodyForce,        \* per vehicle: force applied to its body this step
    dq,               \* per vehicle: ground-truth velocity read back
    vehicle_index_,   \* per vehicle: index set with setVehicleIndex()
    loggers_,         \* per vehicle: logger name -> logger or NullPtr
    wheelRet,         \* what the last getWheelInfo()/getNumWheels() returned
    faulted,          \* a null logger was dereferenced
    phase,            \* tick driver: "idle", "pre", "step", "post", "end"
    tickVeh,          \* tick driver: the vehicle whose hook is next
    ticksLeft,        \* tick driver: steps left in this run_simulation()
    tickLog,          \* hooks and integrations of the current tick, in order
    numOps            \* operations called on the world and vehicles so far

worldVars == <<wheels_info_, fixture_wheels_, bodyVel, bodyForce, dq,
               vehicle_index_, loggers_, wheelRet, faulted, phase, tickVeh,
               ticksLeft, tickLog, numOps>>

\* MVSimNode
VARIABLES
    now,               \* the real-time clock (what a Tac() reads)
    t_old_,            \* clock reading of the last simulated instant, or -1
    simul_timestep,    \* the world's simulation timestep
    world_init_ok_,    \* set by loadWorldModel()
    numVehs,           \* vehicles in the world's list
    spinPc,            \* main thread: where it stands in spin() or main()
    t_new,             \* spin(): local of line 121
    incr_time,         \* spin(): local of line 122
    tOldAtEntry,       \* t_old_ when the current/last spin() was entered
    tFirst,            \* the clock reading t_old_ was initialised with
    simTime,           \* time simulated so far: the sum of run_simulation()'s
    done,              \* what the current/last spin() did: subset of
                       \* {"simulate", "tf", "teleop"}
    tim_publish_tf,    \* clock reading at the last Tic() of m_tim_publish_tf
    tim_teleop_refresh,\* the same for m_tim_teleop_refresh
    m_teleop_idx_veh,  \* index of the vehicle selected for teleoperation
    m_gui_key_events,  \* keycode slot shared with the GUI thread (0: none)
    keyPending,        \* the slot holds a key stroke that no teleop refresh
                       \* of spin() has read yet
    m_msg2gui,         \* text lines shared with the GUI thread
    keyevent,          \* spin(): local copy of the slot (line 168)
    teleopCall,        \* last teleop_interface() call: <<vehicle, keycode>>
    closing,           \* thread_params_.closing
    guiPc,             \* GUI thread: where it stands in thread_update_GUI()
    guiKey,            \* GUI thread: guiparams.keyevent.keycode
    updatesClosing,    \* update_GUI() calls made with closing already set
    guiUpdate,         \* the state of the world's loading at the last
                       \* update_GUI() call, << >> before any
    loadState          \* "none", "loading", "loaded" or "failed"

nodeVars == <<now, t_old_, simul_timestep, world_init_ok_, numVehs, spinPc,
              t_new, incr_time, tOldAtEntry, tFirst, simTime, done,
              tim_publish_tf, tim_teleop_refresh, m_teleop_idx_veh,
              m_gui_key_events, keyPending, m_msg2gui, keyevent, teleopCall, closing,
              guiPc, guiKey, guiUpdate, updatesClosing, loadState>>

cacheVars == <<cache, pc, args, bufIdx, allPts, numTotalPts, numPassedPts,
               hooks, numLocks, retVal, detached, snap, mtx, result, numCalls>>

instVars == <<numInstances, inst>>

vars == <<cacheVars, instVars, worldVars, nodeVars>>

locals == <<bufIdx, allPts, numTotalPts, numPassedPts, hooks, numLocks>>

\* The argument lists of the calls; the band above the geometry is asked
\* for at scale 1 only.
ArgSet ==
    {a \in [obj : Objs, band : Bands, modelPose : Poses, modelScale : Scales,
            modelFile : Keys \cup {None}] :
        a.band = <<0, 2>> \/ a.modelScale = 1}

NoArgs ==
    [obj |-> "tris", band |-> <<0, 2>>, modelPose |-> <<1, 0, 0>>,
     modelScale |-> 1, modelFile |-> None]

NoResult == [kind |-> "none", shape |-> Shape2p5, msg |-> << >>]
Returned(s) == [kind |-> "ok", shape |-> s, msg |-> << >>]

\* The exception of lines 146-150: its format arguments are the asset name
\* (or "none") and the computed volume.
GeometryError(modelFile, vol) ==
    [kind |-> "err", shape |-> Shape2p5,
     msg |-> [asset |-> IF modelFile # None THEN modelFile ELSE "none",
              vol |-> vol]]

\* ------------------------------------------------- the world's vehicles
Vehicles == {1, 2}

\* VehicleBase(parent, nWheels): vehicle 1 is a two-wheeled differential
\* drive, vehicle 2 a four-wheeled one (front and rear wheel of a side are
\* driven together).
nWheels == [v \in Vehicles |-> IF v = 1 THEN 2 ELSE 4]

\* Wheel: runtime state (spin velocity w) and geometry (radius, lateral
\* offset y); odd wheels are on the left, even wheels on the right.
Wheel(i) == [w |-> 0, radius |-> 1, y |-> IF i % 2 = 1 THEN 1 ELSE -1]

\* Velocities are integers, saturated at MaxVel.
MaxVel == 2
Clamp(x) == IF x > MaxVel THEN MaxVel ELSE IF x < -MaxVel THEN -MaxVel ELSE x
\* The motor torques <<left, right>> a controller commands, and the
\* external forces applied to a chassis.
Torques == {<<0, 0>>, <<1, 1>>, <<1, -1>>}
Forces == {-1, 1}

\* std::shared_ptr<CSVLogger>: a null pointer, or a pointer to a logger
\* with its state.
NullPtr == [isNull |-> TRUE]
CSVLogger == [isNull |-> FALSE, recording |-> FALSE, session |-> 0, rows |-> 0]

\* The loggers initLoggers() creates, and the names callers ask for.
LOGGER_POSE == "logger_pose"
LOGGER_WHEEL == "logger_wheel"
LoggerNames == {LOGGER_POSE, LOGGER_WHEEL, "logger_gps"}

WorldInit ==
    /\ wheels_info_ = [v \in Vehicles |-> [i \in 1..nWheels[v] |-> Wheel(i)]]
    /\ fixture_wheels_ =
          [v \in Vehicles |-> [i \in 1..nWheels[v] |-> <<"fixture", v, i>>]]
    /\ bodyVel = [v \in Vehicles |-> 0]
    /\ bodyForce = [v \in Vehicles |-> 0]
    /\ dq = [v \in Vehicles |-> 0]
    /\ vehicle_index_ = [v \in Vehicles |-> 0]
    /\ loggers_ = [v \in Vehicles |->
                     [n \in {LOGGER_POSE, LOGGER_WHEEL} |-> CSVLogger]]
    /\ wheelRet = << >>
    /\ faulted = FALSE
    /\ phase = "idle"
    /\ tickVeh = 0
    /\ ticksLeft = 0
    /\ tickLog = << >>
    /\ numOps = 0

\* ------------------------------------------------------------- MVSimNode
\* Constructor, lines 21-30.
realtime_factor_ == 1
m_period_ms_publish_tf == 20
m_period_ms_teleop_refresh == 100

\* The clock counts units of TimeUnit_ms milliseconds.
TimeUnit_ms == 100

\* CTicTac::Tac() > period_ms * 1e-3 (lines 138 and 163), for a timer
\* whose last Tic() was at clock reading tic.
Elapsed(tic, period_ms) == (now - tic) * TimeUnit_ms > period_ms

\* The timesteps the dynamic reconfiguration can set (line 104), in clock
\* units.
Timesteps == {1, 2}

\* keyevent.keycode: 0 is no key; '1' and '6' select a vehicle, 'w' drives.
Key_1 == 49
Key_6 == 54
Key_w == 119
Keycodes == {Key_1, Key_6, Key_w}

NoTeleop == << >>

\* Constructor, line 24; nothing assigns it afterwards.
m_show_gui == TRUE

\* The vehicles of the world file.
NumVehicles == Cardinality(Vehicles)

\* The node right after its constructor (lines 21-35): the timers were
\* started, the GUI thread was launched, no world is loaded.
NodeInit ==
    /\ now = 0
    /\ t_old_ = -1
    /\ simul_timestep = 1
    /\ world_init_ok_ = FALSE
    /\ numVehs = 0
    /\ spinPc = "main"
    /\ t_new = 0
    /\ incr_time = 0
    /\ tOldAtEntry = -1
    /\ tFirst = -1
    /\ simTime = 0
    /\ done = {}
    /\ tim_publish_tf = 0
    /\ tim_teleop_refresh = 0
    /\ m_teleop_idx_veh = 0
    /\ m_gui_key_events = 0
    /\ keyPending = FALSE
    /\ m_msg2gui = << >>
    /\ keyevent = 0
    /\ teleopCall = NoTeleop
    /\ closing = FALSE
    /\ guiPc = "while"
    /\ guiKey = 0
    /\ guiUpdate = << >>
    /\ updatesClosing = 0
    /\ loadState = "none"

Init ==
    /\ WorldInit
    /\ NodeInit
    /\ cache = << >>
    /\ pc = [t \in Threads |-> "idle"]
    /\ args = [t \in Threads |-> NoArgs]
    /\ bufIdx = [t \in Threads |-> 0]
    /\ allPts = [t \in Threads |-> << >>]
    /\ numTotalPts = [t \in Threads |-> 0]
    /\ numPassedPts = [t \in Threads |-> 0]
    /\ hooks = [t \in Threads |-> {}]
    /\ numLocks = [t \in Threads |-> 0]
    /\ retVal = [t \in Threads |-> Shape2p5]
    /\ detached = [t \in Threads |-> FALSE]
    /\ snap = [t \in Threads |-> {}]
    /\ mtx = [m \in Mutexes |-> 0]
    /\ result = [t \in Threads |-> NoResult]
    /\ numCalls = 0
    /\ numInstances = 0
    /\ inst = [t \in Threads |-> 0]

\* ------------------------------------------------------------- Instance()
\* Instance() with the cache object not static: every call constructs and
\* returns an object of its own.
InstancePerCall(t) ==
    /\ numInstances' = numInstances + 1
    /\ inst' = [inst EXCEPT ![t] = numInstances + 1]

\* Lines 17-21: the function-local static `o` is constructed by the first
\* call to get here (the language serialises that initialisation) and every
\* call returns a reference to it.
Instance(t) ==
    /\ numInstances' = (IF numInstances = 0 THEN 1 ELSE numInstances)
    /\ inst' = [inst EXCEPT ![t] = 1]

\* ------------------------------------------------------------ get(): steps
\* A thread enters get() with arguments a (lines 23-27).
Call(t, a) ==
    /\ pc[t] \in {"idle", "done"}
    /\ numCalls < MaxCalls
    /\ numCalls' = numCalls + 1
    /\ args' = [args EXCEPT ![t] = a]
    /\ pc' = [pc EXCEPT ![t] = "find"]
    /\ bufIdx' = [bufIdx EXCEPT ![t] = 0]
    /\ allPts' = [allPts EXCEPT ![t] = << >>]
    /\ numTotalPts' = [numTotalPts EXCEPT ![t] = 0]
    /\ numPassedPts' = [numPassedPts EXCEPT ![t] = 0]
    /\ hooks' = [hooks EXCEPT ![t] = {}]
    /\ numLocks' = [numLocks EXCEPT ![t] = 0]
    /\ retVal' = [retVal EXCEPT ![t] = Shape2p5]
    /\ detached' = [detached EXCEPT ![t] = FALSE]
    /\ result' = [result EXCEPT ![t] = NoResult]
    /\ UNCHANGED <<cache, snap, mtx>>

\* Find with the early return of line 32 forgotten: a hit falls through to
\* the computation.
FindNoEarlyReturn(t) ==
    /\ pc[t] = "find"
    /\ pc' = [pc EXCEPT ![t] = "placeholder"]
    /\ UNCHANGED <<cache, args, locals, retVal, detached, snap, mtx, result,
                   numCalls>>

\* Lines 28-33: already cached?
Find(t) ==
    /\ pc[t] = "find"
    /\ IF args[t].modelFile # None /\ args[t].modelFile \in DOMAIN cache
       THEN /\ result' = [result EXCEPT
                            ![t] = Returned(cache[args[t].modelFile])]
            /\ pc' = [pc EXCEPT ![t] = "done"]
       ELSE /\ pc' = [pc EXCEPT ![t] = "placeholder"]
            /\ UNCHANGED result
    /\ UNCHANGED <<cache, args, locals, retVal, detached, snap, mtx, numCalls>>

\* Lines 41-68 for thread t: the buffer-update hooks of the classes obj can
\* be cast to; the traversal then starts at the first buffer.
UpdateBuffers(t) ==
    /\ hooks' = [hooks EXCEPT ![t] = UpdateHooks(args[t].obj)]
    /\ bufIdx' = [bufIdx EXCEPT ![t] = 1]
    /\ pc' = [pc EXCEPT ![t] =
                IF BufList(args[t].obj) = << >> THEN "hull" ELSE "lock"]
    /\ UNCHANGED <<allPts, numTotalPts, numPassedPts, numLocks>>

\* LocalPlaceholder with the result of a keyless call memoised under the
\* name the error message uses for it.
LocalPlaceholderMemoised(t) ==
    /\ pc[t] = "placeholder"
    /\ args[t].modelFile = None
    /\ retVal' = [retVal EXCEPT ![t] = Shape2p5]
    /\ cache' = [x \in DOMAIN cache \cup {"none"} |->
                    IF x \in DOMAIN cache THEN cache[x] ELSE Shape2p5]
    /\ UpdateBuffers(t)
    /\ UNCHANGED <<args, detached, snap, mtx, result, numCalls>>

\* Lines 36-68 without a key: `ret` is the local retVal.
LocalPlaceholder(t) ==
    /\ pc[t] = "placeholder"
    /\ args[t].modelFile = None
    /\ retVal' = [retVal EXCEPT ![t] = Shape2p5]
    /\ UpdateBuffers(t)
    /\ UNCHANGED <<cache, args, detached, snap, mtx, result, numCalls>>

\* Line 37 with a key: cache[*modelFile] starts to insert; no lock is taken.
InsertBegin(t) ==
    /\ pc[t] = "placeholder"
    /\ args[t].modelFile # None
    /\ snap' = [snap EXCEPT ![t] = DOMAIN cache]
    /\ pc' = [pc EXCEPT ![t] = "inserting"]
    /\ UNCHANGED <<cache, args, locals, retVal, detached, mtx, result,
                   numCalls>>

\* The map over the keys `keys` of the current map, with key k
\* default-constructed when absent (operator[]).
WithPlaceholder(keys, k) ==
    [x \in keys \cup {k} |-> IF x \in DOMAIN cache THEN cache[x] ELSE Shape2p5]

\* The threads whose `ret` refers to the map's entry of one of `keys`.
Referring(keys) ==
    {u \in Threads :
        /\ pc[u] \in {"lock", "read", "hull", "check"}
        /\ args[u].modelFile \in keys
        /\ ~detached[u]}

\* Lines 37-68 with a key: cache[*modelFile] completes, then the hooks run.
\* When no other thread inserted in the meantime the entry is found or
\* default-constructed.  An unsynchronised insertion that overlapped with
\* another one is a data race: the map may also be left with the keys this
\* thread saw when it began, the other threads' new nodes being lost to the
\* map (their `ret` then refers to a node outside the map).
InsertEnd(t, lose) ==
    /\ pc[t] = "inserting"
    /\ LET k == args[t].modelFile
           keys == IF lose THEN snap[t] ELSE DOMAIN cache
           lost == DOMAIN cache \ (keys \cup {k})
       IN /\ lose => lost # {}
          /\ cache' = WithPlaceholder(keys, k)
          /\ detached' = [u \in Threads |->
                            IF u \in Referring(lost) THEN TRUE ELSE detached[u]]
          /\ retVal' = [u \in Threads |->
                          IF u \in Referring(lost) THEN cache[args[u].modelFile]
                          ELSE retVal[u]]
    /\ snap' = [snap EXCEPT ![t] = {}]
    /\ UpdateBuffers(t)
    /\ UNCHANGED <<args, mtx, result, numCalls>>

CurMutex(t) == <<args[t].obj, BufList(args[t].obj)[bufIdx[t]].id>>

\* mrpt::lockHelper(...) of lines 85, 92, 100, 106, 119.
Lock(t) ==
    /\ pc[t] = "lock"
    /\ mtx[CurMutex(t)] = 0
    /\ mtx' = [mtx EXCEPT ![CurMutex(t)] = t]
    /\ numLocks' = [numLocks EXCEPT ![t] = @ + 1]
    /\ pc' = [pc EXCEPT ![t] = "read"]
    /\ UNCHANGED <<cache, args, bufIdx, allPts, numTotalPts, numPassedPts,
                   hooks, retVal, detached, snap, result, numCalls>>

\* modelPose.composePoint(orgPt * modelScale), line 77.
composePoint(modelPose, pt) ==
    <<pt[1] + modelPose[1], pt[2] + modelPose[2], pt[3] + modelPose[3]>>

ScalePt(orgPt, modelScale) ==
    <<orgPt[1] * modelScale, orgPt[2] * modelScale, orgPt[3] * modelScale>>

\* lambdaUpdatePt with the band taken as open: a vertex exactly at zMin or
\* zMax is skipped too.
lambdaUpdatePtOpenBand(st, orgPt, a) ==
    LET pt == composePoint(a.modelPose, ScalePt(orgPt, a.modelScale))
    IN IF pt[3] <= a.band[1] \/ pt[3] >= a.band[2]
       THEN [st EXCEPT !.numTotalPts = @ + 1]
       ELSE [allPts |-> Append(st.allPts, pt),
             numTotalPts |-> st.numTotalPts + 1,
             numPassedPts |-> st.numPassedPts + 1]

\* Lines 75-81, on the accumulator st = [allPts, numTotalPts, numPassedPts].
lambdaUpdatePt(st, orgPt, a) ==
    LET pt == composePoint(a.modelPose, ScalePt(orgPt, a.modelScale))
    IN IF pt[3] < a.band[1] \/ pt[3] > a.band[2]
       THEN [st EXCEPT !.numTotalPts = @ + 1]
       ELSE [allPts |-> Append(st.allPts, pt),
             numTotalPts |-> st.numTotalPts + 1,
             numPassedPts |-> st.numPassedPts + 1]

RECURSIVE VisitAll(_, _, _)
VisitAll(st, verts, a) ==
    IF verts = << >> THEN st
    ELSE VisitAll(lambdaUpdatePt(st, Head(verts), a), Tail(verts), a)

\* Read with the lock guard outliving its block: the mutex stays held.
ReadKeepLock(t) ==
    /\ pc[t] = "read"
    /\ LET st == VisitAll([allPts |-> allPts[t],
                           numTotalPts |-> numTotalPts[t],
                           numPassedPts |-> numPassedPts[t]],
                          BufList(args[t].obj)[bufIdx[t]].verts, args[t])
       IN /\ allPts' = [allPts EXCEPT ![t] = st.allPts]
          /\ numTotalPts' = [numTotalPts EXCEPT ![t] = st.numTotalPts]
          /\ numPassedPts' = [numPassedPts EXCEPT ![t] = st.numPassedPts]
    /\ bufIdx' = [bufIdx EXCEPT ![t] = @ + 1]
    /\ pc' = [pc EXCEPT ![t] =
                IF bufIdx[t] < Len(BufList(args[t].obj)) THEN "lock"
                ELSE "hull"]
    /\ UNCHANGED <<cache, args, hooks, numLocks, retVal, detached, snap, mtx,
                   result, numCalls>>

\* The loops of lines 86-88, 94-96, 101-102, 107-108, 121-123 over the
\* buffer in turn, up to the end of the block, where `lck` goes out of scope
\* and releases the mutex.
Read(t) ==
    /\ pc[t] = "read"
    /\ LET st == VisitAll([allPts |-> allPts[t],
                           numTotalPts |-> numTotalPts[t],
                           numPassedPts |-> numPassedPts[t]],
                          BufList(args[t].obj)[bufIdx[t]].verts, args[t])
       IN /\ allPts' = [allPts EXCEPT ![t] = st.allPts]
          /\ numTotalPts' = [numTotalPts EXCEPT ![t] = st.numTotalPts]
          /\ numPassedPts' = [numPassedPts EXCEPT ![t] = st.numPassedPts]
    /\ mtx' = [mtx EXCEPT ![CurMutex(t)] = 0]
    /\ bufIdx' = [bufIdx EXCEPT ![t] = @ + 1]
    /\ pc' = [pc EXCEPT ![t] =
                IF bufIdx[t] < Len(BufList(args[t].obj)) THEN "lock"
                ELSE "hull"]
    /\ UNCHANGED <<cache, args, hooks, numLocks, retVal, detached, snap,
                   result, numCalls>>

\* `ret` refers to the map's entry (line 37) unless there is no key or the
\* node was lost by the map.
RefersToCache(t) ==
    /\ args[t].modelFile # None
    /\ ~detached[t]
    /\ args[t].modelFile \in DOMAIN cache

\* Line 130: ret = Shape2p5::CreateConvexHullFromPoints(allPts).
Hull(t) ==
    /\ pc[t] = "hull"
    /\ LET h == CreateConvexHullFromPoints(allPts[t])
       IN IF RefersToCache(t)
          THEN /\ cache' = [cache EXCEPT ![args[t].modelFile] = h]
               /\ UNCHANGED retVal
          ELSE /\ retVal' = [retVal EXCEPT ![t] = h]
               /\ UNCHANGED cache
    /\ pc' = [pc EXCEPT ![t] = "check"]
    /\ UNCHANGED <<args, locals, detached, snap, mtx, result, numCalls>>

\* Lines 132-153: the volume of `ret`, the exception or the return.
Check(t) ==
    /\ pc[t] = "check"
    /\ LET ret == IF RefersToCache(t) THEN cache[args[t].modelFile]
                  ELSE retVal[t]
           vol == volume(ret)
       IN result' = [result EXCEPT ![t] =
                        IF vol < MinVolume
                        THEN GeometryError(args[t].modelFile, vol)
                        ELSE Returned(ret)]
    /\ pc' = [pc EXCEPT ![t] = "done"]
    /\ UNCHANGED <<cache, args, locals, retVal, detached, snap, mtx,
                   numCalls>>

\* What a step inside get() leaves alone.
OutsideGet == <<instVars, worldVars, nodeVars>>

\* What a call of Instance().get() leaves alone.
OutsideCache == <<worldVars, nodeVars>>

\* The callers obtain the cache with Instance() and call get() on it.
Next ==
    \/ \E t \in Threads, a \in ArgSet :
          Instance(t) /\ Call(t, a) /\ UNCHANGED OutsideCache
    \/ \E t \in Threads : Find(t) /\ UNCHANGED OutsideGet
    \/ \E t \in Threads : LocalPlaceholder(t) /\ UNCHANGED OutsideGet
    \/ \E t \in Threads : InsertBegin(t) /\ UNCHANGED OutsideGet
    \/ \E t \in Threads, lose \in BOOLEAN :
          InsertEnd(t, lose) /\ UNCHANGED OutsideGet
    \/ \E t \in Threads : Lock(t) /\ UNCHANGED OutsideGet
    \/ \E t \in Threads : Read(t) /\ UNCHANGED OutsideGet
    \/ \E t \in Threads : Hull(t) /\ UNCHANGED OutsideGet
    \/ \E t \in Threads : Check(t) /\ UNCHANGED OutsideGet

Spec == Init /\ [][Next]_vars

\* The same calls made one after the other: a thread takes a step only
\* while no other thread is inside get().
Alone(t) == \A u \in Threads \ {t} : pc[u] \in {"idle", "done"}

NextSeq ==
    \/ \E t \in Threads, a \in ArgSet :
          Alone(t) /\ Instance(t) /\ Call(t, a) /\ UNCHANGED OutsideCache
    \/ \E t \in Threads : Alone(t) /\ Find(t) /\ UNCHANGED OutsideGet
    \/ \E t \in Threads :
          Alone(t) /\ LocalPlaceholder(t) /\ UNCHANGED OutsideGet
    \/ \E t \in Threads : Alone(t) /\ InsertBegin(t) /\ UNCHANGED OutsideGet
    \/ \E t \in Threads :
          Alone(t) /\ InsertEnd(t, FALSE) /\ UNCHANGED OutsideGet
    \/ \E t \in Threads : Alone(t) /\ Lock(t) /\ UNCHANGED OutsideGet
    \/ \E t \in Threads : Alone(t) /\ Read(t) /\ UNCHANGED OutsideGet
    \/ \E t \in Threads : Alone(t) /\ Hull(t) /\ UNCHANGED OutsideGet
    \/ \E t \in Threads : Alone(t) /\ Check(t) /\ UNCHANGED OutsideGet

SpecSeq == Init /\ [][NextSeq]_vars

\* ------------------------------------------------ VehicleBase: tick hooks
Sign(x) == IF x > 0 THEN 1 ELSE IF x < 0 THEN -1 ELSE 0

RECURSIVE SumSeq(_)
SumSeq(q) == IF q = << >> THEN 0 ELSE Head(q) + SumSeq(Tail(q))

\* The friction force wheel wh applies to a chassis moving at speed vel:
\* towards the speed of the wheel's rim.
FrictionForce(wh, vel) == Sign(wh.w * wh.radius - vel)

\* simul_pre_timestep(): the motor controller's torques (tauL on the left
\* wheels, tauR on the right ones) act on the wheels' spin, and the
\* friction forces of the wheels are applied to the body.
simul_pre_timestep(v, tauL, tauR) ==
    LET spun == [i \in 1..Len(wheels_info_[v]) |->
                    [wheels_info_[v][i] EXCEPT
                        !.w = Clamp(@ + (IF i % 2 = 1 THEN tauL ELSE tauR))]]
    IN /\ wheels_info_' = [wheels_info_ EXCEPT ![v] = spun]
       /\ bodyForce' = [bodyForce EXCEPT ![v] =
              @ + SumSeq([i \in 1..Len(spun) |->
                            FrictionForce(spun[i], bodyVel[v])])]
       /\ tickLog' = Append(tickLog, <<"pre", v>>)

\* The physics engine integrates one step: the applied forces change the
\* bodies' velocities and are cleared.
Integrate ==
    /\ bodyVel' = [v \in Vehicles |-> Clamp(bodyVel[v] + Sign(bodyForce[v]))]
    /\ bodyForce' = [v \in Vehicles |-> 0]
    /\ tickLog' = Append(tickLog, <<"step">>)

\* simul_post_timestep(): the body's velocity is read back into the
\* vehicle's ground-truth state and a row is appended to every logger that
\* is recording.
simul_post_timestep(v) ==
    /\ dq' = [dq EXCEPT ![v] = bodyVel[v]]
    /\ loggers_' = [loggers_ EXCEPT ![v] =
          [n \in DOMAIN loggers_[v] |->
              IF loggers_[v][n] # NullPtr /\ loggers_[v][n].recording
              THEN [loggers_[v][n] EXCEPT !.rows = @ + 1]
              ELSE loggers_[v][n]]]
    /\ tickLog' = Append(tickLog, <<"post", v>>)

\* An odometry estimate that reports the ground-truth velocity.
getVelocityLocalOdoEstimateGT(wheels, vel) == <<2 * vel, 0>>

\* getVelocityLocalOdoEstimate() of the differential drives: twice the
\* forward speed and the speed difference of the first left and right
\* wheels, from their spin and radius.
getVelocityLocalOdoEstimate(wheels, vel) ==
    <<wheels[1].w * wheels[1].radius + wheels[2].w * wheels[2].radius,
      wheels[2].w * wheels[2].radius - wheels[1].w * wheels[1].radius>>

\* ----------------------------------------------------- World: tick driver
\* A caller may use the world and its vehicles between two runs.
CanCall == phase = "idle" /\ ~faulted /\ numOps < MaxOps

\* run_simulation(dt) for a dt of n simulation steps.
run_simulation(n) ==
    /\ CanCall
    /\ numOps' = numOps + 1
    /\ phase' = "pre"
    /\ tickVeh' = 1
    /\ ticksLeft' = n
    /\ tickLog' = << >>
    /\ UNCHANGED <<wheels_info_, fixture_wheels_, bodyVel, bodyForce, dq,
                   vehicle_index_, loggers_, wheelRet, faulted>>

\* TickPre going on to the integration after the first vehicle's hook.
TickPreFirstOnly(tauL, tauR) ==
    /\ phase = "pre"
    /\ simul_pre_timestep(tickVeh, tauL, tauR)
    /\ tickVeh' = 0
    /\ phase' = "step"
    /\ UNCHANGED <<fixture_wheels_, bodyVel, dq, vehicle_index_, loggers_,
                   wheelRet, faulted, ticksLeft, numOps>>

\* The pre-timestep hook of the vehicle in turn.
TickPre(tauL, tauR) ==
    /\ phase = "pre"
    /\ simul_pre_timestep(tickVeh, tauL, tauR)
    /\ IF tickVeh < Cardinality(Vehicles)
       THEN tickVeh' = tickVeh + 1 /\ UNCHANGED phase
       ELSE tickVeh' = 0 /\ phase' = "step"
    /\ UNCHANGED <<fixture_wheels_, bodyVel, dq, vehicle_index_, loggers_,
                   wheelRet, faulted, ticksLeft, numOps>>

\* The one integration step of the tick.
TickStep ==
    /\ phase = "step"
    /\ Integrate
    /\ phase' = "post"
    /\ tickVeh' = 1
    /\ UNCHANGED <<wheels_info_, fixture_wheels_, dq, vehicle_index_,
                   loggers_, wheelRet, faulted, ticksLeft, numOps>>

\* The post-timestep hook of the vehicle in turn.
TickPost ==
    /\ phase = "post"
    /\ simul_post_timestep(tickVeh)
    /\ IF tickVeh < Cardinality(Vehicles)
       THEN tickVeh' = tickVeh + 1 /\ UNCHANGED phase
       ELSE tickVeh' = 0 /\ phase' = "end"
    /\ UNCHANGED <<wheels_info_, fixture_wheels_, bodyVel, bodyForce,
                   vehicle_index_, wheelRet, faulted, ticksLeft, numOps>>

\* The tick is over: the next one starts, or run_simulation() returns.
TickEnd ==
    /\ phase = "end"
    /\ ticksLeft' = ticksLeft - 1
    /\ IF ticksLeft > 1
       THEN phase' = "pre" /\ tickVeh' = 1 /\ tickLog' = << >>
       ELSE phase' = "idle" /\ UNCHANGED <<tickVeh, tickLog>>
    /\ UNCHANGED <<wheels_info_, fixture_wheels_, bodyVel, bodyForce, dq,
                   vehicle_index_, loggers_, wheelRet, faulted, numOps>>

\* ------------------------------------------- VehicleBase: public interface
\* What an operation on a vehicle leaves alone in the tick driver.
driverVars == <<phase, tickVeh, ticksLeft, tickLog>>

\* apply_force(): an external force on the chassis.
apply_force(v, f) ==
    /\ CanCall
    /\ numOps' = numOps + 1
    /\ bodyForce' = [bodyForce EXCEPT ![v] = @ + f]
    /\ UNCHANGED <<wheels_info_, fixture_wheels_, bodyVel, dq, vehicle_index_,
                   loggers_, wheelRet, faulted, driverVars>>

\* Line 80: getNumWheels().
getNumWheels(v) ==
    /\ CanCall
    /\ numOps' = numOps + 1
    /\ wheelRet' = <<"size", v, Len(wheels_info_[v])>>
    /\ UNCHANGED <<wheels_info_, fixture_wheels_, bodyVel, bodyForce, dq,
                   vehicle_index_, loggers_, faulted, driverVars>>

\* What an unchecked read past the end of wheels_info_ may yield.
GarbageWheels == {[w |-> 0, radius |-> 0, y |-> 0]}

\* getWheelInfo growing the container to reach idx (as a map's operator[]
\* would).
getWheelInfoGrow(v, idx) ==
    /\ CanCall
    /\ numOps' = numOps + 1
    /\ wheels_info_' = [wheels_info_ EXCEPT ![v] =
          IF idx < Len(@) THEN @
          ELSE [i \in 1..(idx + 1) |-> IF i <= Len(@) THEN @[i] ELSE Wheel(i)]]
    /\ wheelRet' = <<"wheel", wheels_info_'[v][idx + 1]>>
    /\ UNCHANGED <<fixture_wheels_, bodyVel, bodyForce, dq, vehicle_index_,
                   loggers_, faulted, driverVars>>

\* Lines 81-85: getWheelInfo(idx) is wheels_info_[idx], unchecked; idx
\* counts from 0.  Past the end the read is undefined: some value comes
\* back or the process faults.
getWheelInfo(v, idx) ==
    /\ CanCall
    /\ numOps' = numOps + 1
    /\ IF idx < Len(wheels_info_[v])
       THEN /\ wheelRet' = <<"wheel", wheels_info_[v][idx + 1]>>
            /\ UNCHANGED faulted
       ELSE \/ /\ \E g \in GarbageWheels : wheelRet' = <<"wheel", g>>
               /\ UNCHANGED faulted
            \/ /\ faulted' = TRUE
               /\ UNCHANGED wheelRet
    /\ UNCHANGED <<wheels_info_, fixture_wheels_, bodyVel, bodyForce, dq,
                   vehicle_index_, loggers_, driverVars>>

\* Line 85: a caller sets the spin of wheel idx through the reference the
\* non-const getWheelInfo(idx) returns (idx < getNumWheels()).
SetWheelSpin(v, idx, w) ==
    /\ CanCall
    /\ idx < Len(wheels_info_[v])
    /\ numOps' = numOps + 1
    /\ wheels_info_' = [wheels_info_ EXCEPT ![v][idx + 1].w = w]
    /\ UNCHANGED <<fixture_wheels_, bodyVel, bodyForce, dq, vehicle_index_,
                   loggers_, wheelRet, faulted, driverVars>>

\* Line 113: setVehicleIndex(idx).
setVehicleIndex(v, idx) ==
    /\ CanCall
    /\ numOps' = numOps + 1
    /\ vehicle_index_' = [vehicle_index_ EXCEPT ![v] = idx]
    /\ UNCHANGED <<wheels_info_, fixture_wheels_, bodyVel, bodyForce, dq,
                   loggers_, wheelRet, faulted, driverVars>>

\* Lines 100-103: getLoggerPtr(name) is loggers_[name]: the map's
\* operator[] adds a null shared_ptr under a name it does not hold, and
\* the (possibly null) pointer is returned.
getLoggerPtr(v, name) ==
    /\ CanCall
    /\ numOps' = numOps + 1
    /\ loggers_' = [loggers_ EXCEPT ![v] =
          [n \in DOMAIN @ \cup {name} |->
              IF n \in DOMAIN @ THEN @[n] ELSE NullPtr]]
    /\ UNCHANGED <<wheels_info_, fixture_wheels_, bodyVel, bodyForce, dq,
                   vehicle_index_, wheelRet, faulted, driverVars>>

HasNullLogger(v) == \E n \in DOMAIN loggers_[v] : loggers_[v][n] = NullPtr

\* What a call does to a logger: setRecording(record), clear() or
\* newSession().
LoggerCall(l, call) ==
    CASE call[1] = "setRecording" -> [l EXCEPT !.recording = call[2]]
      [] call[1] = "clear"        -> [l EXCEPT !.rows = 0]
      [] call[1] = "newSession"   -> [l EXCEPT !.session = @ + 1, !.rows = 0]

\* for (auto& logger : loggers_) logger.second->call(): every entry is
\* dereferenced.  On a null entry the call is undefined: the process
\* faults, or the call on the null logger passes without visible effect.
ForEachLogger(v, call) ==
    /\ CanCall
    /\ numOps' = numOps + 1
    /\ \/ /\ HasNullLogger(v)
          /\ faulted' = TRUE
          /\ UNCHANGED loggers_
       \/ /\ loggers_' = [loggers_ EXCEPT ![v] =
                [n \in DOMAIN @ |-> IF @[n] = NullPtr THEN NullPtr
                                    ELSE LoggerCall(@[n], call)]]
          /\ UNCHANGED faulted
    /\ UNCHANGED <<wheels_info_, fixture_wheels_, bodyVel, bodyForce, dq,
                   vehicle_index_, wheelRet, driverVars>>

\* Lines 116-119.
setRecording(v, record) ==
    ForEachLogger(v, <<"setRecording", record>>)

\* Lines 120-123.
clearLogs(v) ==
    ForEachLogger(v, <<"clear">>)

\* Lines 124-127.
newLogSession(v) ==
    ForEachLogger(v, <<"newSession">>)

\* What the world and its vehicles leave alone.
OutsideWorld == <<cacheVars, instVars, nodeVars>>

\* The world is stepped with run_simulation(), and between two runs the
\* vehicles' public interface is called.
NextWorld ==
    \/ \E n \in 1..MaxTicks : run_simulation(n) /\ UNCHANGED OutsideWorld
    \/ \E tau \in Torques :
          TickPre(tau[1], tau[2]) /\ UNCHANGED OutsideWorld
    \/ TickStep /\ UNCHANGED OutsideWorld
    \/ TickPost /\ UNCHANGED OutsideWorld
    \/ TickEnd /\ UNCHANGED OutsideWorld
    \/ \E v \in Vehicles, f \in Forces :
          apply_force(v, f) /\ UNCHANGED OutsideWorld
    \/ \E v \in Vehicles : getNumWheels(v) /\ UNCHANGED OutsideWorld
    \/ \E v \in Vehicles, idx \in {1, 2, 4} :
          getWheelInfo(v, idx) /\ UNCHANGED OutsideWorld
    \/ \E v \in Vehicles, idx \in {0, 1} :
          SetWheelSpin(v, idx, 1) /\ UNCHANGED OutsideWorld
    \/ \E v \in Vehicles : setVehicleIndex(v, v) /\ UNCHANGED OutsideWorld
    \/ \E v \in Vehicles, name \in LoggerNames :
          getLoggerPtr(v, name) /\ UNCHANGED OutsideWorld
    \/ \E v \in Vehicles, record \in BOOLEAN :
          setRecording(v, record) /\ UNCHANGED OutsideWorld
    \/ \E v \in Vehicles : clearLogs(v) /\ UNCHANGED OutsideWorld
    \/ \E v \in Vehicles : newLogSession(v) /\ UNCHANGED OutsideWorld

SpecWorld == Init /\ [][NextWorld]_vars

\* -------------------------------------------------- MVSimNode: main thread
\* Time passes: the clock goes on by one unit.
Advance ==
    /\ now < MaxTime
    /\ now' = now + 1
    /\ UNCHANGED <<t_old_, simul_timestep, world_init_ok_, numVehs, spinPc,
                   t_new, incr_time, tOldAtEntry, tFirst, simTime, done,
                   tim_publish_tf, tim_teleop_refresh, m_teleop_idx_veh,
                   m_gui_key_events, keyPending, m_msg2gui, keyevent, teleopCall, closing,
                   guiPc, guiKey, guiUpdate, updatesClosing, loadState>>

\* What spin() leaves alone in all its steps.
spinFrame == <<now, simul_timestep, world_init_ok_, numVehs, closing, guiPc,
               guiKey, guiUpdate, updatesClosing, loadState>>

\* main() without a world file (mvsim_node_main.cpp:48).
SkipLoad ==
    /\ spinPc = "main"
    /\ spinPc' = "idle"
    /\ UNCHANGED <<now, t_old_, simul_timestep, world_init_ok_, numVehs,
                   t_new, incr_time, tOldAtEntry, tFirst, simTime, done,
                   tim_publish_tf, tim_teleop_refresh, m_teleop_idx_veh,
                   m_gui_key_events, keyPending, m_msg2gui, keyevent, teleopCall, closing,
                   guiPc, guiKey, guiUpdate, updatesClosing, loadState>>

\* loadWorldModel(), lines 39-43: load_from_XML() starts filling the world.
LoadBegin ==
    /\ spinPc = "main"
    /\ spinPc' = "load"
    /\ loadState' = "loading"
    /\ UNCHANGED <<now, t_old_, simul_timestep, world_init_ok_, numVehs,
                   t_new, incr_time, tOldAtEntry, tFirst, simTime, done,
                   tim_publish_tf, tim_teleop_refresh, m_teleop_idx_veh,
                   m_gui_key_events, keyPending, m_msg2gui, keyevent, teleopCall, closing,
                   guiPc, guiKey, guiUpdate, updatesClosing>>

\* LoadEnd with the flag set before load_from_XML() is known to have
\* returned.
LoadEndFlagFirst(ok) ==
    /\ spinPc = "load"
    /\ IF ok
       THEN /\ loadState' = "loaded"
            /\ numVehs' = NumVehicles
            /\ world_init_ok_' = TRUE
            /\ spinPc' = "idle"
       ELSE /\ loadState' = "failed"
            /\ \E n \in 0..NumVehicles : numVehs' = n
            /\ spinPc' = "unwind"
            /\ world_init_ok_' = TRUE
    /\ UNCHANGED <<now, t_old_, simul_timestep, t_new, incr_time, tOldAtEntry,
                   tFirst, simTime, done, tim_publish_tf, tim_teleop_refresh,
                   m_teleop_idx_veh, m_gui_key_events, keyPending, m_msg2gui, keyevent,
                   teleopCall, closing, guiPc, guiKey, guiUpdate, updatesClosing>>

\* loadWorldModel(), lines 43-46: load_from_XML() returns and the flag is
\* set, or it throws and the flag is left as it was; main() then unwinds.
LoadEnd(ok) ==
    /\ spinPc = "load"
    /\ IF ok
       THEN /\ loadState' = "loaded"
            /\ numVehs' = NumVehicles
            /\ world_init_ok_' = TRUE
            /\ spinPc' = "idle"
       ELSE /\ loadState' = "failed"
            /\ \E n \in 0..NumVehicles : numVehs' = n
            /\ spinPc' = "unwind"
            /\ UNCHANGED world_init_ok_
    /\ UNCHANGED <<now, t_old_, simul_timestep, t_new, incr_time, tOldAtEntry,
                   tFirst, simTime, done, tim_publish_tf, tim_teleop_refresh,
                   m_teleop_idx_veh, m_gui_key_events, keyPending, m_msg2gui, keyevent,
                   teleopCall, closing, guiPc, guiKey, guiUpdate, updatesClosing>>

\* configCallback(), line 104 (called from ros::spinOnce() between two
\* spin() calls).
configCallback(ts) ==
    /\ spinPc = "idle"
    /\ simul_timestep' = ts
    /\ UNCHANGED <<now, t_old_, world_init_ok_, numVehs, spinPc, t_new,
                   incr_time, tOldAtEntry, tFirst, simTime, done,
                   tim_publish_tf, tim_teleop_refresh, m_teleop_idx_veh,
                   m_gui_key_events, keyPending, m_msg2gui, keyevent, teleopCall, closing,
                   guiPc, guiKey, guiUpdate, updatesClosing, loadState>>

\* spin(), line 119: the first call initialises t_old_.
SpinBegin ==
    /\ spinPc = "idle"
    /\ tOldAtEntry' = t_old_
    /\ done' = {}
    /\ IF t_old_ < 0
       THEN t_old_' = now /\ tFirst' = now
       ELSE UNCHANGED <<t_old_, tFirst>>
    /\ spinPc' = "tac"
    /\ UNCHANGED <<spinFrame, t_new, incr_time, simTime, tim_publish_tf,
                   tim_teleop_refresh, m_teleop_idx_veh, m_gui_key_events, keyPending,
                   m_msg2gui, keyevent, teleopCall>>

\* SpinTac taking the instant just read as simulated even when it returns
\* early.
SpinTacDropsTime ==
    /\ spinPc = "tac"
    /\ t_old_' = now
    /\ IF realtime_factor_ * (now - t_old_) < simul_timestep
       THEN spinPc' = "idle" /\ UNCHANGED <<t_new, incr_time>>
       ELSE /\ spinPc' = "simulate"
            /\ t_new' = now
            /\ incr_time' = realtime_factor_ * (now - t_old_)
    /\ UNCHANGED <<spinFrame, tOldAtEntry, tFirst, simTime, done,
                   tim_publish_tf, tim_teleop_refresh, m_teleop_idx_veh,
                   m_gui_key_events, keyPending, m_msg2gui, keyevent, teleopCall>>

\* spin(), lines 121-125: the elapsed real time, and the early return when
\* it is shorter than the simulation timestep.  (The locals t_new and
\* incr_time are kept in the state only while spin() goes on.)
SpinTac ==
    /\ spinPc = "tac"
    /\ IF realtime_factor_ * (now - t_old_) < simul_timestep
       THEN spinPc' = "idle" /\ UNCHANGED <<t_new, incr_time>>
       ELSE /\ spinPc' = "simulate"
            /\ t_new' = now
            /\ incr_time' = realtime_factor_ * (now - t_old_)
    /\ UNCHANGED <<spinFrame, t_old_, tOldAtEntry, tFirst, simTime, done,
                   tim_publish_tf, tim_teleop_refresh, m_teleop_idx_veh,
                   m_gui_key_events, keyPending, m_msg2gui, keyevent, teleopCall>>

\* spin(), lines 128-131: run_simulation(incr_time) advances the simulated
\* time by incr_time; t_old_ = t_new.  t_new and incr_time are not used
\* after this.
SpinSimulate ==
    /\ spinPc = "simulate"
    /\ simTime' = simTime + incr_time
    /\ t_old_' = t_new
    /\ t_new' = 0
    /\ incr_time' = 0
    /\ done' = done \cup {"simulate"}
    /\ spinPc' = "tf"
    /\ UNCHANGED <<spinFrame, tOldAtEntry, tFirst, tim_publish_tf,
                   tim_teleop_refresh, m_teleop_idx_veh, m_gui_key_events, keyPending,
                   m_msg2gui, keyevent, teleopCall>>

\* spin(), lines 136-159: the vehicles' poses are broadcast when the
\* publication period has elapsed.
SpinPublishTF ==
    /\ spinPc = "tf"
    /\ IF Elapsed(tim_publish_tf, m_period_ms_publish_tf)
       THEN tim_publish_tf' = now /\ done' = done \cup {"tf"}
       ELSE UNCHANGED <<tim_publish_tf, done>>
    /\ spinPc' = "teleop"
    /\ UNCHANGED <<spinFrame, t_old_, t_new, incr_time, tOldAtEntry, tFirst,
                   simTime, tim_teleop_refresh, m_teleop_idx_veh,
                   m_gui_key_events, keyPending, m_msg2gui, keyevent, teleopCall>>

\* spin(), lines 163-168: when the teleop period has elapsed the key event
\* slot is copied.
SpinTeleopRead ==
    /\ spinPc = "teleop"
    /\ IF Elapsed(tim_teleop_refresh, m_period_ms_teleop_refresh)
       THEN /\ tim_teleop_refresh' = now
            /\ keyevent' = m_gui_key_events
            /\ keyPending' = FALSE
            /\ spinPc' = "process"
       ELSE /\ spinPc' = "idle"
            /\ UNCHANGED <<tim_teleop_refresh, keyevent, keyPending>>
    /\ UNCHANGED <<spinFrame, t_old_, t_new, incr_time, tOldAtEntry, tFirst,
                   simTime, done, tim_publish_tf, m_teleop_idx_veh,
                   m_gui_key_events, m_msg2gui, teleopCall>>

\* SpinTeleopProcess handing the key to the selected vehicle without
\* comparing the index with the number of vehicles.
SpinTeleopProcessUnchecked ==
    /\ spinPc = "process"
    /\ LET idx == IF keyevent \in Key_1..Key_6 THEN keyevent - Key_1
                  ELSE m_teleop_idx_veh
       IN /\ m_teleop_idx_veh' = idx
          /\ teleopCall' = <<idx, keyevent>>
          /\ m_msg2gui' = <<"Selected vehicle", idx + 1, numVehs,
                            "gt. vel", "odo vel", "teleop">>
    /\ done' = done \cup {"teleop"}
    /\ spinPc' = "clear"
    /\ UNCHANGED <<spinFrame, t_old_, t_new, incr_time, tOldAtEntry, tFirst,
                   simTime, tim_publish_tf, tim_teleop_refresh,
                   m_gui_key_events, keyPending, keyevent>>

\* spin(), lines 171-211: keys '1'..'6' select the vehicle; the selected
\* vehicle's controller gets the key if there is such a vehicle; the text
\* for the GUI is stored.
SpinTeleopProcess ==
    /\ spinPc = "process"
    /\ LET idx == IF keyevent \in Key_1..Key_6 THEN keyevent - Key_1
                  ELSE m_teleop_idx_veh
       IN /\ m_teleop_idx_veh' = idx
          /\ IF numVehs > idx
             THEN /\ teleopCall' = <<idx, keyevent>>
                  /\ m_msg2gui' = <<"Selected vehicle", idx + 1, numVehs,
                                    "gt. vel", "odo vel", "teleop">>
             ELSE /\ teleopCall' = NoTeleop
                  /\ m_msg2gui' = <<"Selected vehicle", idx + 1, numVehs>>
    /\ done' = done \cup {"teleop"}
    /\ spinPc' = "clear"
    /\ UNCHANGED <<spinFrame, t_old_, t_new, incr_time, tOldAtEntry, tFirst,
                   simTime, tim_publish_tf, tim_teleop_refresh,
                   m_gui_key_events, keyPending, keyevent>>

\* spin(), lines 213-217: the slot is cleared when a key was read; spin()
\* returns and its locals are gone.
SpinTeleopClear ==
    /\ spinPc = "clear"
    /\ IF keyevent # 0
       THEN m_gui_key_events' = 0 /\ keyPending' = FALSE
       ELSE UNCHANGED <<m_gui_key_events, keyPending>>
    /\ keyevent' = 0
    /\ teleopCall' = NoTeleop
    /\ spinPc' = "idle"
    /\ UNCHANGED <<spinFrame, t_old_, t_new, incr_time, tOldAtEntry, tFirst,
                   simTime, done, tim_publish_tf, tim_teleop_refresh,
                   m_teleop_idx_veh, m_msg2gui>>

\* ~MVSimNode(), line 57.
Destructor ==
    /\ spinPc \in {"idle", "unwind"}
    /\ closing' = TRUE
    /\ spinPc' = "join"
    /\ UNCHANGED <<now, t_old_, simul_timestep, world_init_ok_, numVehs,
                   t_new, incr_time, tOldAtEntry, tFirst, simTime, done,
                   tim_publish_tf, tim_teleop_refresh, m_teleop_idx_veh,
                   m_gui_key_events, keyPending, m_msg2gui, keyevent, teleopCall, guiPc,
                   guiKey, guiUpdate, updatesClosing, loadState>>

\* ~MVSimNode(), line 58: joinThread() returns once the GUI thread ended.
Join ==
    /\ spinPc = "join"
    /\ guiPc = "exit"
    /\ spinPc' = "destroyed"
    /\ UNCHANGED <<now, t_old_, simul_timestep, world_init_ok_, numVehs,
                   t_new, incr_time, tOldAtEntry, tFirst, simTime, done,
                   tim_publish_tf, tim_teleop_refresh, m_teleop_idx_veh,
                   m_gui_key_events, keyPending, m_msg2gui, keyevent, teleopCall, closing,
                   guiPc, guiKey, guiUpdate, updatesClosing, loadState>>

\* --------------------------------------------------- MVSimNode: GUI thread
\* What the GUI thread leaves alone in all its steps.
guiFrame == <<now, t_old_, simul_timestep, world_init_ok_, numVehs, spinPc,
              t_new, incr_time, tOldAtEntry, tFirst, simTime, done,
              tim_publish_tf, tim_teleop_refresh, m_teleop_idx_veh, m_msg2gui,
              keyevent, teleopCall, closing, loadState>>

\* GuiWhile reading the flag once, before the loop.
GuiWhileStale ==
    /\ guiPc = "while"
    /\ guiPc' = "body"
    /\ UNCHANGED <<guiFrame, m_gui_key_events, keyPending, guiKey, guiUpdate, updatesClosing>>

\* thread_update_GUI(), line 233: while (!thread_params.closing).
GuiWhile ==
    /\ guiPc = "while"
    /\ guiPc' = (IF closing THEN "exit" ELSE "body")
    /\ UNCHANGED <<guiFrame, m_gui_key_events, keyPending, guiKey, guiUpdate, updatesClosing>>

\* thread_update_GUI(), lines 235-240: with a loaded world and the GUI
\* enabled, update_GUI() shows the text lines and returns the key pressed,
\* if any.
GuiBody(key) ==
    /\ guiPc = "body"
    /\ IF world_init_ok_ /\ m_show_gui
       THEN /\ guiKey' = key
            /\ guiUpdate' = <<loadState>>
            /\ updatesClosing' = updatesClosing + (IF closing THEN 1 ELSE 0)
            /\ guiPc' = "store"
       ELSE /\ key = 0
            /\ guiPc' = "sleep"
            /\ UNCHANGED <<guiKey, guiUpdate, updatesClosing>>
    /\ UNCHANGED <<guiFrame, m_gui_key_events, keyPending>>

\* thread_update_GUI(), line 243: a key stroke is put in the shared slot;
\* guiparams goes out of scope.
GuiStore ==
    /\ guiPc = "store"
    /\ IF guiKey # 0
       THEN m_gui_key_events' = guiKey /\ keyPending' = TRUE
       ELSE UNCHANGED <<m_gui_key_events, keyPending>>
    /\ guiKey' = 0
    /\ guiPc' = "sleep"
    /\ UNCHANGED <<guiFrame, guiUpdate, updatesClosing>>

\* thread_update_GUI(), line 245: sleep(gui_refresh_period_ms_).
GuiSleep ==
    /\ guiPc = "sleep"
    /\ guiPc' = "while"
    /\ UNCHANGED <<guiFrame, m_gui_key_events, keyPending, guiKey, guiUpdate, updatesClosing>>

\* What the node leaves alone.
OutsideNode == <<cacheVars, instVars, worldVars>>

\* main() loads the world, calls spin() and configCallback() in its loop
\* and destroys the node; the GUI thread runs beside it.
NextNode ==
    \/ Advance /\ UNCHANGED OutsideNode
    \/ SkipLoad /\ UNCHANGED OutsideNode
    \/ LoadBegin /\ UNCHANGED OutsideNode
    \/ \E ok \in BOOLEAN : LoadEnd(ok) /\ UNCHANGED OutsideNode
    \/ \E ts \in Timesteps : configCallback(ts) /\ UNCHANGED OutsideNode
    \/ SpinBegin /\ UNCHANGED OutsideNode
    \/ SpinTac /\ UNCHANGED OutsideNode
    \/ SpinSimulate /\ UNCHANGED OutsideNode
    \/ SpinPublishTF /\ UNCHANGED OutsideNode
    \/ SpinTeleopRead /\ UNCHANGED OutsideNode
    \/ SpinTeleopProcess /\ UNCHANGED OutsideNode
    \/ SpinTeleopClear /\ UNCHANGED OutsideNode
    \/ Destructor /\ UNCHANGED OutsideNode
    \/ Join /\ UNCHANGED OutsideNode
    \/ GuiWhile /\ UNCHANGED OutsideNode
    \/ \E key \in Keycodes \cup {0} : GuiBody(key) /\ UNCHANGED OutsideNode
    \/ GuiStore /\ UNCHANGED OutsideNode
    \/ GuiSleep /\ UNCHANGED OutsideNode

SpecNode == Init /\ [][NextNode]_vars

\* A step of the GUI thread.
GuiThread ==
    /\ \/ GuiWhile
       \/ \E key \in Keycodes \cup {0} : GuiBody(key)
       \/ GuiStore
       \/ GuiSleep
    /\ UNCHANGED OutsideNode

\* The node when update_GUI() and the sleep return, the GUI thread keeps
\* being scheduled and joinThread() returns once the thread has ended.
SpecNodeFair ==
    /\ SpecNode
    /\ WF_vars(GuiThread)
    /\ WF_vars(Join /\ UNCHANGED OutsideNode)

\* ------------------------------------------------- what a call should see
\* Every vertex of every buffer of object o.
AllVertices(o) ==
    UNION {SeqToSet(BufList(o)[i].verts) : i \in DOMAIN BufList(o)}

\* The vertices of a.obj, scaled, then posed, that lie in the band of a.
SurvivingPts(a) ==
    {p \in {<<v[1] * a.modelScale + a.modelPose[1],
              v[2] * a.modelScale + a.modelPose[2],
              v[3] * a.modelScale + a.modelPose[3]>> : v \in AllVertices(a.obj)} :
        a.band[1] <= p[3] /\ p[3] <= a.band[2]}

RECURSIVE SetToSeq(_)
SetToSeq(S) ==
    IF S = {} THEN << >>
    ELSE LET x == CHOOSE x \in S : TRUE IN << x >> \o SetToSeq(S \ {x})

\* The shape of the in-band geometry of each argument list.
ShapeOf == [a \in ArgSet |-> CreateConvexHullFromPoints(SetToSeq(SurvivingPts(a)))]

\* The vertices get() has to visit on a miss, with multiplicity.
RECURSIVE NumVertices(_, _)
NumVertices(bufs, i) ==
    IF i > Len(bufs) THEN 0 ELSE Len(bufs[i].verts) + NumVertices(bufs, i + 1)

Keyed(t) == args[t].modelFile # None

\* ----------------------------------------------------------------- claims
\* Thread t takes the lookup step of a call whose key is in the cache.
HitStep(t) ==
    /\ pc[t] = "find"
    /\ pc'[t] # "find"
    /\ Keyed(t)
    /\ args[t].modelFile \in DOMAIN cache

\* C1: a get() with an asset key that is already cached returns the stored
\* shape in its lookup step: the call is over, no buffer-update hook was
\* invoked, no buffer lock was acquired, no vertex was visited, and the
\* cache is as it was.
C1_CachedKeyNoTraversal ==
    [][\A t \in Threads :
         HitStep(t) =>
            /\ pc'[t] = "done"
            /\ result'[t] = Returned(cache[args[t].modelFile])
            /\ cache' = cache
            /\ mtx' = mtx
            /\ hooks'[t] = {}
            /\ numLocks'[t] = 0
            /\ numTotalPts'[t] = 0
            /\ allPts'[t] = << >>]_vars

\* A call with a key has returned a shape without having run any hook: it
\* was answered from the cache.
C1_Witness ==
    \E t \in Threads :
        /\ pc[t] = "done"
        /\ Keyed(t)
        /\ result[t].kind = "ok"
        /\ hooks[t] = {}
        /\ args[t].modelFile \in DOMAIN cache
        /\ result[t].shape = cache[args[t].modelFile]
        /\ volume(result[t].shape) >= MinVolume

\* C2: two get() calls with the same arguments that both return hand out
\* the same shape.
C2_Idempotent ==
    \A t, u \in Threads :
        (/\ pc[t] = "done" /\ pc[u] = "done"
         /\ args[t] = args[u]
         /\ result[t].kind = "ok" /\ result[u].kind = "ok")
        => result[t].shape = result[u].shape

\* Fewer than three usable points are left in the band of a.
FewUsablePts(a) == Cardinality({<<p[1], p[2]>> : p \in SurvivingPts(a)}) < 3

\* C3: every get() call whose height band leaves fewer than three usable
\* points (none included) ends with the geometry error, with or without a
\* key and whatever the cache holds.
C3_RejectionDeterministic ==
    \A t \in Threads :
        (pc[t] = "done" /\ FewUsablePts(args[t])) => result[t].kind = "err"

\* C4: every shape a get() call returns has a volume of at least the
\* minimum threshold.
C4_NoEmptyGeometry ==
    \A t \in Threads :
        (pc[t] = "done" /\ result[t].kind = "ok")
        => volume(result[t].shape) >= MinVolume

\* C5: at most one thread at a time is inside the insertion into the map.
C5_InsertionExclusive ==
    Cardinality({t \in Threads : pc[t] = "inserting"}) <= 1

\* C6: a key enters the cache only in the step that stores the shape
\* computed for it, and when a call with a key returns a shape, the cache
\* maps the key to that shape.
C6_StoredWhenComputed ==
    [][/\ \A k \in Keys :
            (k \notin DOMAIN cache /\ k \in DOMAIN cache')
            => \E t \in Threads :
                  /\ pc[t] = "hull"
                  /\ args[t].modelFile = k
                  /\ cache'[k] = CreateConvexHullFromPoints(allPts[t])
       /\ \A t \in Threads :
            (/\ pc[t] = "check" /\ pc'[t] = "done"
             /\ Keyed(t) /\ result'[t].kind = "ok")
            => /\ args[t].modelFile \in DOMAIN cache'
               /\ cache'[args[t].modelFile] = result'[t].shape]_vars

\* C7: no key ever leaves the cache and the shape stored under a key never
\* changes once the key is in the cache.
C7_AppendOnlyImmutable ==
    [][\A k \in DOMAIN cache :
          k \in DOMAIN cache' /\ cache'[k] = cache[k]]_vars

\* Thread t takes a step of a call without a key.
KeylessStep(t) ==
    /\ pc[t] \notin {"idle", "done"}
    /\ ~Keyed(t)
    /\ pc'[t] # pc[t]

\* C8: no step of a get() call without a key changes the cache, and every
\* such call, once over, has run the hooks, locked and visited every buffer
\* of its object, and has returned the hull of the geometry in its own
\* band, pose and scale (or has failed on it).
C8_NoKeyNotCached ==
    [][/\ \A t \in Threads : KeylessStep(t) => cache' = cache
       /\ \A t \in Threads :
            (pc'[t] = "done" /\ args'[t].modelFile = None)
            => /\ hooks'[t] = UpdateHooks(args'[t].obj)
               /\ numLocks'[t] = Len(BufList(args'[t].obj))
               /\ numTotalPts'[t] = NumVertices(BufList(args'[t].obj), 1)
               /\ result'[t].kind =
                     (IF volume(ShapeOf[args'[t]]) < MinVolume
                      THEN "err" ELSE "ok")
               /\ result'[t].kind = "ok"
                     => result'[t].shape = ShapeOf[args'[t]]]_vars

\* Two keyless calls on the same geometry, band and pose with different
\* scales have both returned, each with its own hull.
C8_Witness ==
    \E t, u \in Threads :
        /\ pc[t] = "done" /\ pc[u] = "done"
        /\ ~Keyed(t) /\ ~Keyed(u)
        /\ args[t].obj = args[u].obj
        /\ args[t].band = args[u].band
        /\ args[t].modelScale = 1 /\ args[u].modelScale = 2
        /\ result[t].kind = "ok" /\ result[u].kind = "ok"
        /\ result[t].shape # result[u].shape
        /\ cache = << >>

\* C9: the geometry error reports the asset identity, the height band
\* (zMin and zMax) and the computed volume.
C9_ErrorReportsAll ==
    \A t \in Threads :
        result[t].kind = "err"
        => /\ {"asset", "zMin", "zMax", "vol"} \subseteq DOMAIN result[t].msg
           /\ result[t].msg.asset =
                 (IF Keyed(t) THEN args[t].modelFile ELSE "none")

\* The mutexes thread t holds.
Held(t) == {m \in Mutexes : mtx[m] = t}

\* C10: a thread is at the traversal of a buffer only with that buffer's
\* mutex held, it holds no other mutex, and it holds none anywhere else in
\* get(), in particular not once the call has returned or failed.
C10_LockScope ==
    \A t \in Threads :
        IF pc[t] = "read" THEN Held(t) = {CurMutex(t)} ELSE Held(t) = {}

\* A call has acquired every buffer lock of its object and has failed with
\* the geometry error, while the other thread is reading a buffer.
C10_Witness ==
    \E t, u \in Threads :
        /\ pc[t] = "done"
        /\ result[t].kind = "err"
        /\ numLocks[t] = Len(BufList(args[t].obj))
        /\ numLocks[t] > 1
        /\ Held(t) = {}
        /\ pc[u] = "read"
        /\ Held(u) # {}

\* The traversal of thread t's call is complete: every buffer was read.
TraversalDone(t) ==
    \/ pc[t] \in {"hull", "check"}
    \/ pc[t] = "done" /\ hooks[t] # {}

\* C11: on a cache miss, once every buffer of the object has been read, the
\* points collected for the convex hull are exactly the vertices of all the
\* buffers (triangles, textured triangles, points, wireframe, nested
\* textured sub-objects) whose height after scale, then pose, lies in
\* [zMin, zMax], both bounds included.
C11_ExactBandFilter ==
    \A t \in Threads :
        TraversalDone(t)
        => /\ SeqToSet(allPts[t]) = SurvivingPts(args[t])
           /\ numPassedPts[t] = Len(allPts[t])
           /\ numTotalPts[t] = NumVertices(BufList(args[t].obj), 1)

\* A miss on the mesh has read all its buffers: a vertex exactly at zMax
\* (from a nested sub-object) and one exactly at zMin were kept, and a
\* vertex above the band was dropped.
C11_Witness ==
    \E t, u \in Threads :
        /\ pc[t] = "hull" /\ args[t].obj = "mesh"
        /\ \E p \in SeqToSet(allPts[t]) : p[3] = args[t].band[2]
        /\ numPassedPts[t] < numTotalPts[t]
        /\ TraversalDone(u) /\ args[u].obj = "mesh"
        /\ \E p \in SeqToSet(allPts[u]) : p[3] = args[u].band[1] /\ p[3] > 0

\* The contour c, taken counter-clockwise, has every one of its vertices on
\* the left of, or on, each of its edges.
IsConvex(c) ==
    \A i, j \in DOMAIN c : Cross(c[i], c[(i % Len(c)) + 1], c[j]) >= 0

\* The projection of point p lies in the polygon c (border included).
InPolygon(c, p) ==
    /\ c # << >>
    /\ Len(c) = 1 => <<p[1], p[2]>> = c[1]
    /\ Len(c) = 2 => Dist2(c[1], p) + Dist2(p, c[2]) <= Dist2(c[1], c[2])
    /\ \A i \in DOMAIN c : Cross(c[i], c[(i % Len(c)) + 1], p) >= 0

\* C15: the polygon of every shape a get() call returns is convex, and when
\* the call built the shape itself (a miss) the polygon contains every
\* in-band point the call collected for it.
C15_ConvexContainment ==
    \A t \in Threads :
        (pc[t] = "done" /\ result[t].kind = "ok")
        => /\ IsConvex(result[t].shape.contour)
           /\ hooks[t] # {}
                => \A p \in SeqToSet(allPts[t]) :
                      InPolygon(result[t].shape.contour, p)

\* C16: there is one cache object: Instance() never constructs a second
\* one, every thread that called Instance() holds the same object, and a
\* lookup misses only when no call has put the key in the cache, so an
\* entry stored through one Instance() call is a hit for a later get()
\* with the same key through any other.
C16_SingleInstance ==
    /\ [](/\ numInstances <= 1
          /\ \A t, u \in Threads :
                (inst[t] # 0 /\ inst[u] # 0) => inst[t] = inst[u])
    /\ [][\A t \in Threads :
            (pc[t] = "find" /\ pc'[t] = "placeholder" /\ Keyed(t))
            => args[t].modelFile \notin DOMAIN cache]_vars

\* Both threads went through Instance(); one computed and stored a shape
\* and has returned, the other then asked for the same key and was
\* answered from the cache with that shape.
C16_Witness ==
    \E t, u \in Threads :
        /\ t # u
        /\ inst[t] # 0 /\ inst[u] # 0
        /\ pc[u] = "done" /\ Keyed(u) /\ hooks[u] # {}
        /\ result[u].kind = "ok"
        /\ pc[t] = "done" /\ args[t].modelFile = args[u].modelFile
        /\ hooks[t] = {}
        /\ result[t] = result[u]

\* Thread u is computing the shape for key k: it missed and has not yet
\* assigned the hull to the entry.
Computing(u, k) ==
    /\ pc[u] \in {"lock", "read", "hull"}
    /\ args[u].modelFile = k
    /\ RefersToCache(u)

\* C17: a lookup that hits a key while another thread is still computing
\* the shape for that key does not hand out an empty or unfinished shape:
\* what it returns has passed the volume check.
C17_NoUnfinishedShape ==
    [][\A t \in Threads :
         (/\ HitStep(t)
          /\ \E u \in Threads \ {t} : Computing(u, args[t].modelFile))
         => /\ result'[t].kind = "ok"
            /\ result'[t].shape # Shape2p5
            /\ volume(result'[t].shape) >= MinVolume]_vars

\* Thread u made the call that created the entry of its key: it went
\* through the computation (it did not hit).
Missed(u) ==
    /\ Keyed(u)
    /\ \/ pc[u] \in {"inserting", "lock", "read", "hull", "check"}
       \/ pc[u] = "done" /\ hooks[u] # {}

\* C18: a call answered from the cache returns, whatever its own band,
\* pose and scale, the shape derived from the band, pose and scale of the
\* call that created the entry of that key.
C18_KeyOnly ==
    \A t, u \in Threads :
        (/\ t # u
         /\ pc[t] = "done" /\ Keyed(t) /\ hooks[t] = {}
         /\ result[t].kind = "ok"
         /\ Missed(u) /\ args[u].modelFile = args[t].modelFile)
        => result[t].shape = ShapeOf[args[u]]

\* ------------------------------------------------------ claims: vehicles
\* The places in tickLog of the entries equal to e.
Places(e) == {i \in DOMAIN tickLog : tickLog[i] = e}

\* The current tick has run all its hooks.
TickComplete == phase = "end" \/ (phase = "idle" /\ tickLog # << >>)

\* C12: within a tick every vehicle's pre-timestep hook runs at most once
\* and only before the integration, there is at most one integration, it
\* comes after the pre-timestep hooks of all vehicles, every post-timestep
\* hook comes after it, and a complete tick has exactly one pre-timestep
\* hook per vehicle, one integration and one post-timestep hook per vehicle.
C12_TickOrdering ==
    /\ Cardinality(Places(<<"step">>)) <= 1
    /\ \A v \in Vehicles :
          /\ Cardinality(Places(<<"pre", v>>)) <= 1
          /\ Cardinality(Places(<<"post", v>>)) <= 1
          /\ \A i \in Places(<<"pre", v>>), j \in Places(<<"step">>) : i < j
          /\ \A i \in Places(<<"post", v>>) :
                \E j \in Places(<<"step">>) : j < i
          /\ Places(<<"step">>) # {} => Places(<<"pre", v>>) # {}
          /\ TickComplete
                => /\ Cardinality(Places(<<"pre", v>>)) = 1
                   /\ Cardinality(Places(<<"post", v>>)) = 1
    /\ TickComplete => Cardinality(Places(<<"step">>)) = 1

\* A second run_simulation() has completed its tick, with the wheels of both
\* vehicles spinning.
C12_Witness ==
    /\ phase = "idle"
    /\ numOps >= 2
    /\ tickLog = <<<<"pre", 1>>, <<"pre", 2>>, <<"step">>,
                   <<"post", 1>>, <<"post", 2>>>>
    /\ \A v \in Vehicles : wheels_info_[v][1].w # 0
    /\ \A v \in Vehicles : dq[v] # 0

\* C13: a step that changes a vehicle's ground-truth velocity but none of
\* its wheels (spin and geometry) leaves its odometry estimate unchanged.
C13_OdometryIndependence ==
    [][\A v \in Vehicles :
          wheels_info_'[v] = wheels_info_[v]
          => getVelocityLocalOdoEstimate(wheels_info_'[v], dq'[v])
             = getVelocityLocalOdoEstimate(wheels_info_[v], dq[v])]_vars

\* One vehicle moves (pushed by an external force) with its wheels at rest
\* and a zero estimate, the other stands still with a non-zero estimate.
C13_Witness ==
    \E v, u \in Vehicles :
        /\ dq[v] # 0
        /\ getVelocityLocalOdoEstimate(wheels_info_[v], dq[v]) = <<0, 0>>
        /\ dq[u] = 0
        /\ getVelocityLocalOdoEstimate(wheels_info_[u], dq[u]) # <<0, 0>>

\* C14: each vehicle has as many wheels, and as many wheel fixtures, as its
\* constructor was given, and getNumWheels() returns that number.
C14_WheelCountFixed ==
    /\ \A v \in Vehicles :
          /\ Len(wheels_info_[v]) = nWheels[v]
          /\ Len(fixture_wheels_[v]) = nWheels[v]
    /\ (wheelRet # << >> /\ wheelRet[1] = "size")
          => /\ wheelRet[3] = nWheels[wheelRet[2]]
             /\ wheelRet[3] = Len(fixture_wheels_[wheelRet[2]])

\* getNumWheels() has answered for the four-wheeled vehicle after a tick
\* and a write to a wheel.
C14_Witness ==
    /\ wheelRet = <<"size", 2, 4>>
    /\ tickLog # << >>
    /\ \E i \in 1..4 : wheels_info_[2][i].w # 0
    /\ numOps >= 3

\* C19: every entry of every vehicle's logger map holds a logger (no null
\* pointer), and no logger operation has dereferenced a null pointer.
C19_LoggersNonNull ==
    /\ ~faulted
    /\ \A v \in Vehicles : \A n \in DOMAIN loggers_[v] :
          loggers_[v][n] # NullPtr

\* ---------------------------------------------------------- claims: node
\* spin() has just gone past the test of line 124.
PastTest == spinPc = "tac" /\ spinPc' # "tac"

\* run_simulation() is called in this step.
Simulates == simTime' # simTime

\* C20: spin() simulates only when enough real time has accumulated and
\* never drops elapsed time.  run_simulation() is called only with
\* incr_time = realtime_factor_ * (t_new - t_old_) that is at least the
\* simulation timestep, and t_old_ becomes t_new in the same step; when the
\* elapsed time is shorter, spin() returns having simulated, published and
\* processed nothing, and t_old_ keeps the value the interval was measured
\* from; an initialised t_old_ changes in no other step; and so the time
\* simulated so far is always the real time between the first reading and
\* t_old_, scaled by realtime_factor_.
C20_SimulatesAccumulatedTime ==
    /\ [](t_old_ >= 0 => simTime = realtime_factor_ * (t_old_ - tFirst))
    /\ [][/\ Simulates =>
               /\ spinPc = "simulate"
               /\ incr_time = realtime_factor_ * (t_new - t_old_)
               /\ incr_time >= simul_timestep
               /\ simTime' = simTime + incr_time
               /\ t_old_' = t_new
          /\ PastTest =>
               IF realtime_factor_ * (now - t_old_) < simul_timestep
               THEN /\ spinPc' = "idle"
                    /\ done' = {}
                    /\ UNCHANGED <<t_old_, simTime, tim_publish_tf,
                                   tim_teleop_refresh, m_teleop_idx_veh,
                                   m_gui_key_events, m_msg2gui>>
               ELSE spinPc' = "simulate"
          /\ (t_old_ >= 0 /\ t_old_' # t_old_) => Simulates]_vars

\* A call of spin() after the first one has returned early, after an
\* earlier call simulated, and real time not yet simulated is pending.
C20_Witness ==
    /\ spinPc = "idle"
    /\ tOldAtEntry >= 0
    /\ done = {}
    /\ simTime > 0
    /\ now > t_old_
    /\ realtime_factor_ * (now - t_old_) < simul_timestep

\* The teleop block of spin() has just processed the key it read.
Processed == spinPc = "process" /\ spinPc' = "clear"

\* C21: in the teleop block of spin(), a key '1'..'6' sets the teleop
\* vehicle index to keycode - '1' and any other keycode leaves it as it
\* was; teleop_interface of the selected vehicle is called, with that
\* keycode, only when the index is below the number of vehicles; otherwise
\* no vehicle is used and only the "Selected vehicle" line goes to the GUI.
\* No other step changes the index or calls teleop_interface.
C21_TeleopSelection ==
    [][/\ Processed =>
            /\ m_teleop_idx_veh' = (IF keyevent \in Key_1..Key_6
                                    THEN keyevent - Key_1
                                    ELSE m_teleop_idx_veh)
            /\ IF m_teleop_idx_veh' < numVehs
               THEN teleopCall' = <<m_teleop_idx_veh', keyevent>>
               ELSE /\ teleopCall' = NoTeleop
                    /\ m_msg2gui' = <<"Selected vehicle",
                                      m_teleop_idx_veh' + 1, numVehs>>
       /\ ~Processed =>
            /\ m_teleop_idx_veh' = m_teleop_idx_veh
            /\ teleopCall' \in {teleopCall, NoTeleop}]_vars

\* With two vehicles loaded and vehicle 6 selected by an earlier key, a
\* driving key has been processed without any teleop_interface call.
C21_Witness ==
    /\ spinPc = "clear"
    /\ numVehs = NumVehicles
    /\ m_teleop_idx_veh = Key_6 - Key_1
    /\ keyevent = Key_w
    /\ teleopCall = NoTeleop
    /\ Len(m_msg2gui) = 3

\* The GUI thread puts a key stroke in the shared slot in this step.
Stores == guiPc = "store" /\ guiPc' = "sleep" /\ guiKey # 0

\* spin() clears the shared slot in this step.
Clears == spinPc = "clear" /\ spinPc' = "idle" /\ keyevent # 0

\* C22: no key stroke is lost between the GUI thread and the main thread:
\* a key stroke is stored in the shared slot only when the slot holds no
\* key stroke still to be read by a teleop refresh (so none is overwritten
\* before it is read), and spin() clears the slot only when it holds no
\* such key stroke (so none is erased together with an earlier one).
C22_NoKeystrokeLost ==
    [][/\ Stores => ~keyPending
       /\ Clears => ~keyPending]_vars

\* The GUI thread calls update_GUI() in this step.
UpdatesGUI == guiPc = "body" /\ guiPc' = "store"

\* C23: the GUI thread touches the world only after it is loaded.
\* update_GUI() is called only when world_init_ok_ is true and the GUI is
\* to be shown; world_init_ok_ is true only when load_from_XML() has
\* returned without raising, and becomes true in that step of
\* loadWorldModel() alone; so every update_GUI() call has seen a fully
\* loaded world, and after a failed load the flag is false.
C23_GUIAfterLoad ==
    /\ [](/\ world_init_ok_ => loadState = "loaded"
          /\ loadState = "failed" => ~world_init_ok_
          /\ guiUpdate # << >> => guiUpdate = <<"loaded">>)
    /\ [][/\ UpdatesGUI => world_init_ok_ /\ m_show_gui
          /\ world_init_ok_' # world_init_ok_ =>
               spinPc = "load" /\ loadState' = "loaded" /\ world_init_ok_']_vars

\* update_GUI() has been called on the loaded world.
C23_Witness ==
    /\ guiPc = "store"
    /\ guiUpdate = <<"loaded">>
    /\ world_init_ok_

\* The GUI thread evaluates the condition of its loop in this step.
TestsClosing == guiPc = "while" /\ guiPc' # "while"

\* C24: shutdown terminates.  Once the destructor has set closing, the GUI
\* thread calls update_GUI() at most once more; when it evaluates its loop
\* condition with closing set it leaves the loop and starts no iteration
\* again; the destructor's join returns only after that, and it does
\* return: closing set leads to the thread ended and the node destroyed.
C24_ShutdownTerminates ==
    /\ [](updatesClosing <= 1)
    /\ [][/\ (closing /\ TestsClosing) => guiPc' = "exit"
          /\ guiPc = "exit" => guiPc' = "exit"
          /\ closing => closing'
          /\ (spinPc = "join" /\ spinPc' # "join") =>
                guiPc = "exit" /\ spinPc' = "destroyed"]_vars
    /\ closing ~> (guiPc = "exit" /\ spinPc = "destroyed")

\* The node is destroyed after the GUI thread made one update_GUI() call
\* with closing already set.
C24_Witness ==
    /\ spinPc = "destroyed"
    /\ guiPc = "exit"
    /\ updatesClosing = 1

====
